---- MODULE Spec2Model ----
(***************************************************************************)
(* A model of main.py: the vector-store reconciler ensure_vector_store,    *)
(* the agent cached in st.session_state, the prompt handler, and the       *)
(* streaming loop of run_agent with its text / code / image / status       *)
(* accumulation, the replay of the conversation log by paint_history and   *)
(* the sidebar.                                                            *)
(*                                                                         *)
(* Strings whose characters matter (deltas, rendered text, base64          *)
(* payloads) are sequences of one-character strings; decoded images are    *)
(* sequences of byte values.  Python's None is the string "None".          *)
(***************************************************************************)
EXTENDS Integers, Sequences, FiniteSets, TLC

\* ---------------------------------------------------------------- bounds
\* resources the backend issues ids for before every further create fails
MaxCreate == 2
\* events one turn of the application delivers
MaxAppEvents == 1
\* events of a turn in the specification of the accumulator alone
MaxEvents == 3
\* files of one prompt
MaxFiles == 1
\* items the conversation log holds
MaxLog == 1
\* the items of a log of the replay's specification
MaxItems == 2
\* events of a turn in the specification of a session's turns
MaxSessionEvents == 3

\* ------------------------------------------------------------- constants
None == "None"
Raised == "Raised"
DEFAULT_VECTOR_STORE_ID == "vs_68a0815f62388191a9c3701ceb237234"

\* the id the backend issues for its n-th created vector store
IssuedId(n) == "vs_new" \o ToString(n)

\* --------------------------------------------------------- the reconciler
\* client.vector_stores.retrieve: the outcome of probing cand
retrieve(store, cand, err) ==
    IF err THEN "error"
    ELSE IF cand \in store THEN "exists" ELSE "not_found"

\* the except clause of the probe loop: which outcomes go on to the next
\* candidate (every exception is swallowed)
ProbeAdvances(outcome) == outcome # "exists"

\* The backend once it has answered a round trip and before the client
\* goes on: the ids of gone were deleted out of band in between (expiry,
\* another session).  The client waits for the backend at each round trip
\* and nothing holds the backend still while it does.
AfterAnswer(store, gone) == store \ gone

\* the for loop over candidates: the first candidate whose probe does not
\* raise, the probes made (id, outcome, and whether the id existed when the
\* backend answered) and the backend after the probes.  dels[i] is what is
\* deleted out of band right after the probe of candidates[i] is answered.
RECURSIVE ProbeCandidates(_, _, _, _, _, _)
ProbeCandidates(candidates, i, store, errs, dels, probed) ==
    IF i > Len(candidates)
    THEN [hit |-> None, probed |-> probed, store |-> store]
    ELSE LET cand == candidates[i]
         IN  IF cand = None
             THEN ProbeCandidates(candidates, i + 1, store, errs, dels, probed)
             ELSE LET outcome == retrieve(store, cand, errs[i])
                      entry == [id |-> cand, outcome |-> outcome,
                                live |-> cand \in store]
                      after == AfterAnswer(store, dels[i])
                  IN  IF ProbeAdvances(outcome)
                      THEN ProbeCandidates(candidates, i + 1, after, errs,
                                           dels, Append(probed, entry))
                      ELSE [hit |-> cand, probed |-> Append(probed, entry),
                            store |-> after]

\* a mutant of EnsureCreate: a failed create is answered with the fallback id
EnsureCreateFabricates(vs_id, store, issued, createFails, gone, probed) ==
    IF createFails
    THEN [ret |-> DEFAULT_VECTOR_STORE_ID,
          remembered |-> DEFAULT_VECTOR_STORE_ID,
          store |-> AfterAnswer(store, gone), issued |-> issued,
          probed |-> probed, created |-> FALSE]
    ELSE [ret |-> IssuedId(issued + 1), remembered |-> IssuedId(issued + 1),
          store |-> AfterAnswer(store \cup {IssuedId(issued + 1)}, gone),
          issued |-> issued + 1,
          probed |-> probed, created |-> TRUE]

\* step 3 of ensure_vector_store: client.vector_stores.create, whose
\* exception leaves the function with the session state untouched.  gone is
\* what is deleted out of band right after create is answered.
EnsureCreate(vs_id, store, issued, createFails, gone, probed) ==
    IF createFails
    THEN [ret |-> Raised, remembered |-> vs_id,
          store |-> AfterAnswer(store, gone), issued |-> issued,
          probed |-> probed, created |-> FALSE]
    ELSE [ret |-> IssuedId(issued + 1), remembered |-> IssuedId(issued + 1),
          store |-> AfterAnswer(store \cup {IssuedId(issued + 1)}, gone),
          issued |-> issued + 1,
          probed |-> probed, created |-> TRUE]

\* a mutant of ensure_vector_store: a found candidate is returned but not
\* written back to the session state
EnsureForgets(vs_id, store, issued, errs, createFails, dels) ==
    LET p == ProbeCandidates(<<vs_id, DEFAULT_VECTOR_STORE_ID>>, 1, store,
                             errs, dels, <<>>)
    IN  IF p.hit # None
        THEN [ret |-> p.hit, remembered |-> vs_id,
              store |-> p.store, issued |-> issued,
              probed |-> p.probed, created |-> FALSE]
        ELSE EnsureCreate(vs_id, p.store, issued, createFails, dels[3],
                          p.probed)

\* ensure_vector_store(): vs_id is st.session_state.get("VECTOR_STORE_ID"),
\* errs[i] tells whether the probe of candidates[i] meets a backend error,
\* createFails whether create does, and dels what is deleted out of band
\* while the call waits: dels[1] and dels[2] after the two probes, dels[3]
\* after create.  The result carries the return value (Raised for an
\* exception), the new session value and the backend at the return.
ensure_vector_store(vs_id, store, issued, errs, createFails, dels) ==
    LET p == ProbeCandidates(<<vs_id, DEFAULT_VECTOR_STORE_ID>>, 1, store,
                             errs, dels, <<>>)
    IN  IF p.hit # None
        THEN [ret |-> p.hit, remembered |-> p.hit,
              store |-> p.store, issued |-> issued,
              probed |-> p.probed, created |-> FALSE]
        ELSE EnsureCreate(vs_id, p.store, issued, createFails, dels[3],
                          p.probed)

\* -------------------------------------------------------- the accumulator
\* str.replace("$", "\$"): every dollar sign becomes backslash, dollar
RECURSIVE Escape(_)
Escape(s) ==
    IF s = <<>> THEN <<>>
    ELSE (IF Head(s) = "$" THEN <<"\\", "$">> ELSE <<Head(s)>>)
         \o Escape(Tail(s))

\* the base64 alphabet, in the order of its values 0..63
B64Alphabet ==
    <<"A","B","C","D","E","F","G","H","I","J","K","L","M","N","O","P",
      "Q","R","S","T","U","V","W","X","Y","Z","a","b","c","d","e","f",
      "g","h","i","j","k","l","m","n","o","p","q","r","s","t","u","v",
      "w","x","y","z","0","1","2","3","4","5","6","7","8","9","+","/">>

B64Value(c) ==
    IF c = "=" THEN 0
    ELSE (CHOOSE i \in 1..Len(B64Alphabet) : B64Alphabet[i] = c) - 1

\* four characters of a padded payload, decoded to three bytes less the
\* padding
B64Quad(q) ==
    LET v == B64Value(q[1]) * 262144 + B64Value(q[2]) * 4096
             + B64Value(q[3]) * 64 + B64Value(q[4])
        pad == IF q[3] = "=" THEN 2 ELSE IF q[4] = "=" THEN 1 ELSE 0
    IN  SubSeq(<<v \div 65536, (v \div 256) % 256, v % 256>>, 1, 3 - pad)

\* base64.b64decode of a well-padded payload
RECURSIVE b64decode(_)
b64decode(s) ==
    IF Len(s) < 4 THEN <<>>
    ELSE B64Quad(SubSeq(s, 1, 4)) \o b64decode(SubSeq(s, 5, Len(s)))

\* the table of update_status; an emoji of a label is written as its code
\* points (U+2705 for the check mark)
status_messages ==
    ("response.web_search_call.completed"
        :> <<"U+2705 Web search completed.", "complete">>)
 @@ ("response.web_search_call.in_progress"
        :> <<"U+1F50D Starting web search...", "running">>)
 @@ ("response.web_search_call.searching"
        :> <<"U+1F50D Web search in progress...", "running">>)
 @@ ("response.file_search_call.completed"
        :> <<"U+2705 File search completed.", "complete">>)
 @@ ("response.file_search_call.in_progress"
        :> <<"U+1F5C2 U+FE0F Starting file search...", "running">>)
 @@ ("response.file_search_call.searching"
        :> <<"U+1F5C2 U+FE0F File search in progress...", "running">>)
 @@ ("response.image_generation_call.generating"
        :> <<"U+1F3A8 Drawing image...", "running">>)
 @@ ("response.image_generation_call.in_progress"
        :> <<"U+1F3A8 Drawing image...", "running">>)
 @@ ("response.code_interpreter_call_code.done"
        :> <<"U+1F916 Ran code.", "complete">>)
 @@ ("response.code_interpreter_call.completed"
        :> <<"U+1F916 Ran code.", "complete">>)
 @@ ("response.code_interpreter_call.in_progress"
        :> <<"U+1F916 Running code...", "complete">>)
 @@ ("response.code_interpreter_call.interpreting"
        :> <<"U+1F916 Running code...", "complete">>)
 @@ ("response.mcp_call.completed"
        :> <<"U+2692 U+FE0F Called MCP tool", "complete">>)
 @@ ("response.mcp_call.failed"
        :> <<"U+2692 U+FE0F Error calling MCP tool", "complete">>)
 @@ ("response.mcp_call.in_progress"
        :> <<"U+2692 U+FE0F Calling MCP tool...", "running">>)
 @@ ("response.mcp_list_tools.completed"
        :> <<"U+2692 U+FE0F Listed MCP tools", "complete">>)
 @@ ("response.mcp_list_tools.failed"
        :> <<"U+2692 U+FE0F Error listing MCP tools", "complete">>)
 @@ ("response.mcp_list_tools.in_progress"
        :> <<"U+2692 U+FE0F Listing MCP tools", "running">>)
 @@ ("response.completed" :> <<" ", "complete">>)

\* st.status("U+23F3", expanded=False): the status container of a new turn
InitialStatus == [label |-> "U+23F3", state |-> "running"]

\* a mutant of update_status: a tag outside the table clears the status
UpdateStatusClears(status, event) ==
    IF event \in DOMAIN status_messages
    THEN [label |-> status_messages[event][1],
          state |-> status_messages[event][2]]
    ELSE [label |-> "", state |-> "complete"]

\* update_status(status_container, event): the container after the call
update_status(status, event) ==
    IF event \in DOMAIN status_messages
    THEN [label |-> status_messages[event][1],
          state |-> status_messages[event][2]]
    ELSE status

\* a mutant of NewAccumulator: the text buffer still holds an earlier text
LeftoverAccumulator ==
    [response |-> <<"$", "5">>, code_response |-> <<>>,
     status |-> InitialStatus, ops |-> <<>>]

\* The accumulator of one turn: the locals response and code_response, the
\* status container, and ops, the render operations emitted so far, each
\* with the position in the stream of the event that emitted it.
NewAccumulator ==
    [response |-> <<>>, code_response |-> <<>>,
     status |-> InitialStatus, ops |-> <<>>]

\* line 292: update_status on the tag of a raw response event
OnStatus(acc, ev, n) ==
    IF ev.tag \in DOMAIN status_messages
    THEN [acc EXCEPT
            !.status = update_status(acc.status, ev.tag),
            !.ops = Append(@, [op |-> "SetStatus", at |-> n,
                               value |-> status_messages[ev.tag]])]
    ELSE [acc EXCEPT !.status = update_status(acc.status, ev.tag)]

\* a mutant of OnText: the placeholder is given the delta alone
OnTextWritesDelta(acc, ev, n) ==
    IF ev.tag = "response.output_text.delta"
    THEN [acc EXCEPT
            !.response = acc.response \o ev.delta,
            !.ops = Append(@, [op |-> "SetText", at |-> n,
                               value |-> Escape(ev.delta)])]
    ELSE acc

\* a mutant of OnText: the SetText is put before the operations emitted
\* so far
OnTextPrepends(acc, ev, n) ==
    IF ev.tag = "response.output_text.delta"
    THEN [acc EXCEPT
            !.response = acc.response \o ev.delta,
            !.ops = <<[op |-> "SetText", at |-> n,
                       value |-> Escape(acc.response \o ev.delta)]>> \o @]
    ELSE acc

\* lines 295-298: a text delta is appended and the whole text written
OnText(acc, ev, n) ==
    IF ev.tag = "response.output_text.delta"
    THEN [acc EXCEPT
            !.response = acc.response \o ev.delta,
            !.ops = Append(@, [op |-> "SetText", at |-> n,
                               value |-> Escape(acc.response \o ev.delta)])]
    ELSE acc

\* a mutant of OnCode: the code is escaped like the text
OnCodeEscapes(acc, ev, n) ==
    IF ev.tag = "response.code_interpreter_call_code.delta"
    THEN [acc EXCEPT
            !.code_response = acc.code_response \o ev.delta,
            !.ops = Append(@, [op |-> "SetCode", at |-> n,
                               value |-> Escape(acc.code_response \o ev.delta)])]
    ELSE acc

\* a mutant of OnCode: the code delta goes to the text buffer as well
OnCodeIntoResponse(acc, ev, n) ==
    IF ev.tag = "response.code_interpreter_call_code.delta"
    THEN [acc EXCEPT
            !.response = acc.response \o ev.delta,
            !.code_response = acc.code_response \o ev.delta,
            !.ops = Append(@, [op |-> "SetCode", at |-> n,
                               value |-> acc.code_response \o ev.delta])]
    ELSE acc

\* lines 301-303: a code delta is appended and the whole code shown
OnCode(acc, ev, n) ==
    IF ev.tag = "response.code_interpreter_call_code.delta"
    THEN [acc EXCEPT
            !.code_response = acc.code_response \o ev.delta,
            !.ops = Append(@, [op |-> "SetCode", at |-> n,
                               value |-> acc.code_response \o ev.delta])]
    ELSE acc

\* the image the image placeholder shows after ops: that of the last
\* SetImage, nothing (<<>>) before the first
RECURSIVE ShownImage(_)
ShownImage(ops) ==
    IF ops = <<>> THEN <<>>
    ELSE IF ops[Len(ops)].op = "SetImage" THEN ops[Len(ops)].value
    ELSE ShownImage(SubSeq(ops, 1, Len(ops) - 1))

\* a mutant of OnImage: the frame is appended to the image already shown
OnImageAccumulates(acc, ev, n) ==
    IF /\ ev.tag # "response.code_interpreter_call_code.delta"
       /\ ev.tag = "response.image_generation_call.partial_image"
    THEN [acc EXCEPT
            !.ops = Append(@, [op |-> "SetImage", at |-> n,
                               value |-> ShownImage(acc.ops)
                                         \o b64decode(ev.partial_image_b64)])]
    ELSE acc

\* lines 306-308: the elif branch, a partial image is decoded and shown
OnImage(acc, ev, n) ==
    IF /\ ev.tag # "response.code_interpreter_call_code.delta"
       /\ ev.tag = "response.image_generation_call.partial_image"
    THEN [acc EXCEPT
            !.ops = Append(@, [op |-> "SetImage", at |-> n,
                               value |-> b64decode(ev.partial_image_b64)])]
    ELSE acc

\* the body of the async for loop, for the n-th event of the stream
ProcessEvent(acc, ev, n) ==
    IF ev.type = "raw_response_event"
    THEN OnImage(OnCode(OnText(OnStatus(acc, ev, n), ev, n), ev, n), ev, n)
    ELSE acc

\* ------------------------------------------------------------- the events
RawEvent(tag, delta, b64) ==
    [type |-> "raw_response_event", tag |-> tag,
     delta |-> delta, partial_image_b64 |-> b64]

TextDeltas == {<<"H", "e", "l">>, <<"l", "o">>, <<"$", "5">>}
CodeDeltas == {<<"x", "=">>, <<"$">>}
ImagePayloads == {<<"Q", "Q", "=", "=">>, <<"Q", "k", "M", "=">>}
\* tags the loop has no rule for
OtherTags == {"response.created"}

TextEvents == {RawEvent("response.output_text.delta", d, <<>>) : d \in TextDeltas}
CodeEvents ==
    {RawEvent("response.code_interpreter_call_code.delta", d, <<>>) :
        d \in CodeDeltas}
ImageEvents ==
    {RawEvent("response.image_generation_call.partial_image", <<>>, p) :
        p \in ImagePayloads}
StatusEvents == {RawEvent(t, <<>>, <<>>) : t \in DOMAIN status_messages}
OtherEvents == {RawEvent(t, <<>>, <<>>) : t \in OtherTags}
\* events that are not raw response events carry no data.type
ItemEvents ==
    {[type |-> "run_item_stream_event", tag |-> None,
      delta |-> <<>>, partial_image_b64 |-> <<>>]}

\* the events a stream of the accumulator's specification may deliver
Events ==
    TextEvents \cup CodeEvents \cup ImageEvents \cup StatusEvents
    \cup OtherEvents \cup ItemEvents

\* the events a stream of the application's specification may deliver:
\* what the loop does with the other events is the matter of the
\* specifications of the turn and of the session
AppEvents ==
    {RawEvent("response.completed", <<>>, <<>>)}

\* the events a stream of the session's specification may deliver
SessionEvents ==
    {RawEvent("response.output_text.delta", <<"$", "5">>, <<>>),
     RawEvent("response.code_interpreter_call_code.delta", <<"x", "=">>, <<>>),
     RawEvent("response.completed", <<>>, <<>>)}

\* ------------------------------------------------- the conversation log
\* The SQLiteSession keeps the items in the order they were added.
add_items(items, new) == items \o new
get_items(items) == items

\* a mutant of clear_session: the delete matches no row of the session
ClearDeletesNothing(items) == items

clear_session(items) == <<>>

\* The items are the dicts of the log: a key a dict does not have is a field
\* the record does not have.  A content that is a str is [str |-> chars], a
\* content that is a list is [list |-> parts].

\* the item Runner.run_streamed appends for the text of a prompt
UserTextItem == [role |-> "user", content |-> [str |-> <<"$", "5">>]]

\* the item the prompt handler appends for an uploaded image
ImageItem ==
    [role |-> "user",
     content |-> [list |-> <<[type |-> "input_image", detail |-> "auto",
                              image_url |-> "data:image/png;base64,QQ=="]>>]]

\* the final assistant message of a turn whose answer is text
AssistantMessage(text) ==
    [role |-> "assistant", type |-> "message",
     content |-> [list |-> <<[type |-> "output_text", text |-> text]>>]]

AssistantItem == AssistantMessage(<<"a", "$">>)

\* What Runner.run_streamed(agent, message, session=session) stores in the
\* session once the stream of the turn is exhausted: the user's message and
\* the final assistant message, whose text is what the text deltas of the
\* turn made up.
TurnItems(response) == <<UserTextItem, AssistantMessage(response)>>

\* What the session holds of a turn when its stream is exhausted.  The
\* runner is not part of main.py, which hands it the session and awaits the
\* events: a runner that persists has stored the items of the turn, a
\* runner that does not has stored nothing.
RunnerStores(response) == {<<>>, TurnItems(response)}

WebSearchItem == [type |-> "web_search_call"]
FileSearchItem == [type |-> "file_search_call"]
ImageGenerationItem ==
    [type |-> "image_generation_call", result |-> <<"Q", "k", "M", "=">>]
CodeInterpreterItem ==
    [type |-> "code_interpreter_call", code |-> <<"x", "=", "$">>]
McpListToolsItem == [type |-> "mcp_list_tools", server_label |-> "Context7"]
McpCallItem ==
    [type |-> "mcp_call", server_label |-> "Context7", name |-> "get_docs",
     arguments |-> "{}"]

\* items the replay has no rule for: a reasoning record, a message with a
\* role other than user and no type, an assistant message whose first
\* content part is a refusal and has no text
ReasoningItem == [type |-> "reasoning"]
UntypedAssistantItem ==
    [role |-> "assistant", content |-> [str |-> <<"h", "i">>]]
RefusalItem ==
    [role |-> "assistant", type |-> "message",
     content |-> [list |-> <<[type |-> "refusal", refusal |-> <<"n", "o">>]>>]]

\* the items of the kinds the replay has a rule for
ConversationItems ==
    {UserTextItem, ImageItem, AssistantItem, WebSearchItem, FileSearchItem,
     ImageGenerationItem, CodeInterpreterItem, McpListToolsItem, McpCallItem}

Items ==
    ConversationItems \cup {ReasoningItem, UntypedAssistantItem, RefusalItem}

\* A bubble is a st.chat_message container: its role, the position of the
\* item it was opened for, and what was drawn in it, in order.
Bubble(role, i, body) == [role |-> role, item |-> i, body |-> body]

\* lines 178-180: st.image for every part that has an image_url
RECURSIVE ImageParts(_)
ImageParts(parts) ==
    IF parts = <<>> THEN <<>>
    ELSE (IF "image_url" \in DOMAIN Head(parts)
          THEN <<[image_url |-> Head(parts).image_url]>> ELSE <<>>)
         \o ImageParts(Tail(parts))

\* a mutant of UserBody: a content that is a str is not drawn
UserBodyDropsText(content) ==
    IF "str" \in DOMAIN content THEN <<>>
    ELSE IF "list" \in DOMAIN content THEN ImageParts(content.list)
    ELSE <<>>

\* lines 174-180: what is drawn for the content of a user message
UserBody(content) ==
    IF "str" \in DOMAIN content THEN <<[write |-> content.str]>>
    ELSE IF "list" \in DOMAIN content THEN ImageParts(content.list)
    ELSE <<>>

\* Lines 169-186: the bubble of an item that has a role.  The container is
\* opened before anything is drawn in it.  content[0]["text"] raises when
\* the content is empty or its first part has no text.
RoleBubble(message, i) ==
    IF "role" \notin DOMAIN message
    THEN [bubbles |-> <<>>, raised |-> FALSE]
    ELSE IF message.role = "user"
    THEN [bubbles |-> <<Bubble("user", i, UserBody(message.content))>>,
          raised |-> FALSE]
    ELSE IF "type" \in DOMAIN message /\ message.type = "message"
    THEN IF /\ "list" \in DOMAIN message.content
            /\ message.content.list # <<>>
            /\ "text" \in DOMAIN message.content.list[1]
         THEN [bubbles |->
                  <<Bubble(message.role, i,
                       <<[write |-> Escape(message.content.list[1].text)]>>)>>,
               raised |-> FALSE]
         ELSE [bubbles |-> <<Bubble(message.role, i, <<>>)>>,
               raised |-> TRUE]
    ELSE [bubbles |-> <<Bubble(message.role, i, <<>>)>>, raised |-> FALSE]

\* lines 189-213: the bubble of an item that has a type
TypeBubble(message, i) ==
    IF "type" \notin DOMAIN message THEN <<>>
    ELSE IF message.type = "web_search_call"
    THEN <<Bubble("ai", i, <<[label |-> "U+1F50D Searched the web..."]>>)>>
    ELSE IF message.type = "file_search_call"
    THEN <<Bubble("ai", i,
              <<[label |-> "U+1F5C2 U+FE0F Searched your files..."]>>)>>
    ELSE IF message.type = "image_generation_call"
    THEN <<Bubble("ai", i, <<[image |-> b64decode(message.result)]>>)>>
    ELSE IF message.type = "code_interpreter_call"
    THEN <<Bubble("ai", i, <<[code |-> message.code]>>)>>
    ELSE IF message.type = "mcp_list_tools"
    THEN <<Bubble("ai", i,
              <<[label |-> "Listed " \o message.server_label \o "'s tools"]>>)>>
    ELSE IF message.type = "mcp_call"
    THEN <<Bubble("ai", i,
              <<[label |-> "Called " \o message.server_label \o "'s "
                           \o message.name \o " with args "
                           \o message.arguments]>>)>>
    ELSE <<>>

\* lines 167-213: the loop of paint_history from item i on, after bubbles
RECURSIVE PaintFrom(_, _, _)
PaintFrom(messages, i, bubbles) ==
    IF i > Len(messages)
    THEN [messages |-> messages, bubbles |-> bubbles, raised |-> FALSE]
    ELSE LET r == RoleBubble(messages[i], i)
         IN  IF r.raised
             THEN [messages |-> messages, bubbles |-> bubbles \o r.bubbles,
                   raised |-> TRUE]
             ELSE PaintFrom(messages, i + 1,
                            bubbles \o r.bubbles \o TypeBubble(messages[i], i))

\* lines 164-213: paint_history, the items it read and the bubbles it drew
paint_history(items) == PaintFrom(get_items(items), 1, <<>>)

\* the page before paint_history has run
NotPainted == [messages |-> <<>>, bubbles |-> <<>>, raised |-> FALSE]

\* SidebarRun with lines 404 and 407 in the other order: the items are read
\* before the log is cleared
SidebarReadsBeforeClear(items, reset) ==
    [log |-> IF reset THEN clear_session(items) ELSE items,
     shown |-> get_items(items)]

\* lines 401-407: the log after the sidebar and the items st.write shows
SidebarRun(items, reset) ==
    LET after == IF reset THEN clear_session(items) ELSE items
    IN  [log |-> after, shown |-> get_items(after)]

\* ---------------------------------------------------------------- state
VARIABLES
    store,        \* ids of the vector stores that exist in the backend
    issued,       \* number of vector stores the backend has created
    remembered,   \* st.session_state["VECTOR_STORE_ID"], None when absent
    agent,        \* vector_store_ids[0] of the FileSearchTool of
                  \* st.session_state["agent"], None when there is no agent
    log,          \* the items of the SQLiteSession, in order
    pc,           \* where the script run stands
    files,        \* prompt.files still to be handled
    text,         \* whether prompt.text is non-empty
    attached,     \* the store ids the text files of the prompt were attached
                  \* to, until the run ends
    turnState,    \* Idle, Streaming, Completed or Failed
    turn_vs_id,   \* the local vs_id of run_agent
    acc,          \* the accumulator of the turn
    received,     \* the events of the turn's stream so far
    call,         \* the last call of ensure_vector_store
    fallbackHit,  \* a probe of the fallback id has succeeded in this session
    promotedFrom, \* the dead remembered id last met while the fallback lived
    painted,      \* what paint_history read and drew in this script run
    sidebar,      \* the button and the items st.write showed in the sidebar
    after_reset   \* fresh: no item of the log was in the file before this
                  \* session (the file was new, or Reset memory has cleared
                  \* it since); items: what the session has added to the log
                  \* since its start or its last clear

vars ==
    <<store, issued, remembered, agent, log, pc, files, text, attached,
      turnState, turn_vs_id, acc, received, call, fallbackHit, promotedFrom,
      painted, sidebar, after_reset>>

backendVars == <<store, issued, remembered, call, fallbackHit, promotedFrom>>
turnVars == <<turnState, turn_vs_id, acc, received>>
pageVars == <<painted, sidebar, after_reset>>

\* the sidebar before it has run
NoSidebar == [ran |-> FALSE, reset |-> FALSE, shown |-> <<>>]

NoCall ==
    [site |-> None, vs_id |-> None, probed |-> <<>>, created |-> FALSE,
     ret |-> None, retLive |-> FALSE, unreachable |-> FALSE]

FileTypes == {"text/plain", "image/png"}

RECURSIVE SeqsUpTo(_, _)
SeqsUpTo(S, n) ==
    IF n = 0 THEN {<<>>}
    ELSE SeqsUpTo(S, n - 1)
         \cup {Append(q, x) : q \in {r \in SeqsUpTo(S, n - 1) : Len(r) = n - 1},
                              x \in S}

NumImages(fs) == Cardinality({i \in DOMAIN fs : fs[i] = "image/png"})

\* Before the first run of the script nothing is in st.session_state; the
\* fallback id may or may not exist in this project, whose backend has
\* issued n ids.  The log is a file, chat-gpt-clone-memory.db, that outlives
\* the process: the session finds in it the items prior that earlier
\* sessions left.
SessionStartOn(n, prior) ==
    /\ store \in SUBSET {DEFAULT_VECTOR_STORE_ID}
    /\ issued = n
    /\ remembered = None
    /\ agent = None
    /\ log = prior
    /\ pc = "idle"
    /\ files = <<>>
    /\ text = FALSE
    /\ attached = <<>>
    /\ turnState = "Idle"
    /\ turn_vs_id = None
    /\ acc = NewAccumulator
    /\ received = <<>>
    /\ call = NoCall
    /\ fallbackHit = FALSE
    /\ promotedFrom = None
    /\ painted = NotPainted
    /\ sidebar = NoSidebar
    /\ after_reset = [fresh |-> prior = <<>>, items |-> <<>>]

\* the session that finds no chat-gpt-clone-memory.db, or an empty one
SessionStart(n) == SessionStartOn(n, <<>>)

\* the session before its first script run, in a backend that has issued no
\* id yet
Init == SessionStart(0)

\* What may be deleted out of band while one call of ensure_vector_store
\* waits for the backend.  Any ids may go after any of the three round
\* trips.  What a call does and leaves depends on two things only: the ids
\* gone by its return, and whether the fallback id was gone before the
\* second probe asked for it; an id deleted before it exists (the one create
\* will issue) is not deleted.  So for every set G of ids it is enough to
\* take the schedule that deletes G after every round trip and, when the
\* fallback id is in G, the schedule that spares it until the first probe
\* is over.
CallDeletions(backend, n) ==
    LET ids == backend \cup (IF n < MaxCreate THEN {IssuedId(n + 1)} ELSE {})
    IN  {<<G, G, G>> : G \in SUBSET ids}
        \cup {<<G \ {DEFAULT_VECTOR_STORE_ID}, G, G>> :
                 G \in {H \in SUBSET ids : DEFAULT_VECTOR_STORE_ID \in H}}

\* The calls of ensure_vector_store() that can happen with vs_id in the
\* session state, in a backend that holds the ids of backend and has issued
\* n ids: the result r of the call for every choice of e1 and e2 (whether
\* the probes meet a backend error), of cf (whether create does) and of the
\* deletions, with unreachable telling whether the backend failed at every
\* round trip of the call.  The backend issues at most MaxCreate ids: after
\* that create fails.
Calls(vs_id, backend, n) ==
    {[unreachable |-> (vs_id = None \/ e1) /\ e2 /\ cf,
      r |-> ensure_vector_store(vs_id, backend, n, <<e1, e2>>, cf, dels)] :
        e1 \in BOOLEAN, e2 \in BOOLEAN,
        cf \in {f \in BOOLEAN : f \/ n < MaxCreate},
        dels \in CallDeletions(backend, n)}

\* A call c of ensure_vector_store() from site.  retLive tells whether the
\* returned id exists in the backend when the call returns; the live flag
\* of a probe whether its id existed when the backend answered it.
Ensure(site, c) ==
    /\ store' = c.r.store
    /\ issued' = c.r.issued
    /\ remembered' = c.r.remembered
    /\ call' = [site |-> site, vs_id |-> remembered, probed |-> c.r.probed,
                created |-> c.r.created, ret |-> c.r.ret,
                retLive |-> c.r.ret \in c.r.store,
                unreachable |-> c.unreachable]
    /\ fallbackHit' =
          (fallbackHit \/ \E i \in DOMAIN c.r.probed :
              /\ c.r.probed[i].id = DEFAULT_VECTOR_STORE_ID
              /\ c.r.probed[i].outcome = "exists")
    /\ promotedFrom' =
          IF /\ remembered # None
             /\ Len(c.r.probed) = 2
             /\ ~c.r.probed[1].live
             /\ c.r.probed[2].live
          THEN remembered ELSE promotedFrom

\* Lines 74-216 of a script run: VECTOR_STORE_ID = ensure_vector_store(),
\* then the agent is built around it unless the session already has one,
\* then paint_history draws the log.  An exception ends the run.  The run
\* starts from an empty page: the frame of the run_agent call of the run
\* before it, and what that run drew, are gone.
ScriptStart ==
    /\ pc = "idle"
    /\ \E c \in Calls(remembered, store, issued) :
          LET r == c.r
          IN  /\ Ensure("start", c)
              /\ IF r.ret = Raised
                 THEN /\ pc' = "idle"
                      /\ agent' = agent
                      /\ painted' = NotPainted
                 ELSE /\ painted' = paint_history(log)
                      /\ pc' = IF painted'.raised THEN "idle" ELSE "prompt"
                      /\ agent' = IF agent = None THEN r.ret ELSE agent
    /\ sidebar' = NoSidebar
    /\ turnState' = "Idle"
    /\ turn_vs_id' = None
    /\ acc' = NewAccumulator
    /\ received' = <<>>
    /\ attached' = <<>>
    /\ UNCHANGED <<log, files, text, after_reset>>

\* st.chat_input returned nothing: the run goes on to the sidebar
NoPrompt ==
    /\ pc = "prompt"
    /\ pc' = "sidebar"
    /\ UNCHANGED <<backendVars, agent, log, files, text, attached, turnVars, pageVars>>

\* st.chat_input returned a prompt with files fs and, when txt, a text
SubmitPrompt ==
    /\ pc = "prompt"
    /\ \E fs \in SeqsUpTo(FileTypes, MaxFiles), txt \in BOOLEAN :
          /\ fs # <<>> \/ txt
          /\ Len(log) + NumImages(fs) <= MaxLog
          /\ files' = fs
          /\ text' = txt
    /\ pc' = "files"
    /\ UNCHANGED <<backendVars, agent, log, attached, turnVars,
                   pageVars>>

\* Lines 336-355: a text file is uploaded and attached to the store that
\* ensure_vector_store() returns.  An exception, of ensure_vector_store or
\* (uf) of client.files.create or client.vector_stores.files.create, ends
\* the run.
UploadText ==
    /\ pc = "files"
    /\ files # <<>>
    /\ Head(files) = "text/plain"
    /\ \E c \in Calls(remembered, store, issued), uf \in BOOLEAN :
          LET r == c.r
          IN  /\ Ensure("upload", c)
              /\ IF r.ret = Raised \/ uf
                 THEN /\ pc' = "idle"
                      /\ files' = <<>>
                      /\ text' = FALSE
                      /\ attached' = <<>>
                 ELSE /\ pc' = "files"
                      /\ files' = Tail(files)
                      /\ text' = text
                      /\ attached' = Append(attached, r.ret)
    /\ UNCHANGED <<agent, log, turnVars, pageVars>>

\* Lines 357-386: an image file is appended to the log as a user message
UploadImage ==
    /\ pc = "files"
    /\ files # <<>>
    /\ Head(files) = "image/png"
    /\ log' = add_items(log, <<ImageItem>>)
    /\ after_reset' = [after_reset EXCEPT !.items = Append(@, ImageItem)]
    /\ files' = Tail(files)
    /\ UNCHANGED <<backendVars, agent, pc, text, attached, turnVars,
                   painted, sidebar>>

\* Lines 389-392 without a text: no turn is run
SkipRun ==
    /\ pc = "files"
    /\ files = <<>>
    /\ ~text
    /\ pc' = "sidebar"
    /\ UNCHANGED <<backendVars, agent, log, files, text, attached, turnVars, pageVars>>

\* a mutant of RunAgent: the turn is run before the files of the prompt
\* are handled
RunAgentBeforeUploads ==
    /\ pc = "files"
    /\ text
    /\ \E c \in Calls(remembered, store, issued) :
          LET r == c.r
          IN  /\ Ensure("run_agent", c)
              /\ turn_vs_id' = r.ret
              /\ IF r.ret = Raised
                 THEN /\ pc' = "idle"
                      /\ turnState' = "Failed"
                      /\ attached' = <<>>
                 ELSE /\ pc' = "streaming"
                      /\ turnState' = "Streaming"
                      /\ attached' = attached
    /\ acc' = NewAccumulator
    /\ received' = <<>>
    /\ text' = FALSE
    /\ UNCHANGED <<agent, log, files, pageVars>>

\* Lines 262-286: run_agent up to Runner.run_streamed.  The locals are
\* fresh, ensure_vector_store() is called once more, and the stream is
\* started on the agent of the session.
RunAgent ==
    /\ pc = "files"
    /\ files = <<>>
    /\ text
    /\ \E c \in Calls(remembered, store, issued) :
          LET r == c.r
          IN  /\ Ensure("run_agent", c)
              /\ turn_vs_id' = r.ret
              /\ IF r.ret = Raised
                 THEN /\ pc' = "idle"
                      /\ turnState' = "Failed"
                      /\ attached' = <<>>
                 ELSE /\ pc' = "streaming"
                      /\ turnState' = "Streaming"
                      /\ attached' = attached
    /\ acc' = NewAccumulator
    /\ received' = <<>>
    /\ text' = FALSE
    /\ UNCHANGED <<agent, log, files, pageVars>>

\* One pass of the async for loop on event ev
OnEvent(ev) ==
    /\ pc = "streaming"
    /\ acc' = ProcessEvent(acc, ev, Len(received) + 1)
    /\ received' = Append(received, ev)
    /\ UNCHANGED <<backendVars, agent, log, pc, files, text, attached,
                   turnState, turn_vs_id, pageVars>>

\* the stream of the application delivers an event
StreamEvent ==
    /\ Len(received) < MaxAppEvents
    /\ \E ev \in AppEvents : OnEvent(ev)

\* a mutant of StreamEnd: run_agent returns and the turn is still streaming
StreamEndKeepsStreaming ==
    /\ pc = "streaming"
    /\ pc' = "sidebar"
    /\ \E stored \in RunnerStores(acc.response) :
          /\ log' = add_items(log, stored)
          /\ after_reset' = [after_reset EXCEPT !.items = @ \o stored]
    /\ UNCHANGED <<backendVars, agent, files, text, attached,
                   turnVars, painted, sidebar>>

\* The stream is exhausted: the runtime, which was given the session, has
\* stored in it what it stores of the turn, and run_agent returns.
StreamEnd ==
    /\ pc = "streaming"
    /\ turnState' = "Completed"
    /\ pc' = "sidebar"
    /\ \E stored \in RunnerStores(acc.response) :
          /\ log' = add_items(log, stored)
          /\ after_reset' = [after_reset EXCEPT !.items = @ \o stored]
    /\ UNCHANGED <<backendVars, agent, files, text, attached,
                   turn_vs_id, acc, received, painted, sidebar>>

\* a mutant of StreamError: what the turn had rendered is taken back
StreamErrorRollsBack ==
    /\ pc = "streaming"
    /\ turnState' = "Failed"
    /\ pc' = "idle"
    /\ attached' = <<>>
    /\ acc' = NewAccumulator
    /\ UNCHANGED <<backendVars, agent, log, files, text, turn_vs_id,
                   received, pageVars>>

\* stream_events() raises: the exception leaves run_agent and ends the run
StreamError ==
    /\ pc = "streaming"
    /\ turnState' = "Failed"
    /\ pc' = "idle"
    /\ attached' = <<>>
    /\ UNCHANGED <<backendVars, agent, log, files, text, turn_vs_id, acc,
                   received, pageVars>>

\* Lines 401-407: the sidebar, with the Reset memory button pressed or not
Sidebar ==
    /\ pc = "sidebar"
    /\ \E reset \in BOOLEAN :
          LET r == SidebarRun(log, reset)
          IN  /\ log' = r.log
              /\ sidebar' = [ran |-> TRUE, reset |-> reset, shown |-> r.shown]
              /\ after_reset' = IF reset
                                 THEN [fresh |-> TRUE, items |-> <<>>]
                                 ELSE after_reset
    /\ pc' = "idle"
    /\ attached' = <<>>
    /\ UNCHANGED <<backendVars, agent, files, text, turnVars, painted>>

\* Out of band (expiry, another session): a vector store is deleted
DeleteStore ==
    /\ \E id \in store : store' = store \ {id}
    /\ UNCHANGED <<issued, remembered, call, fallbackHit, promotedFrom,
                   agent, log, pc, files, text, attached, turnVars,
                   pageVars>>

Next ==
    \/ ScriptStart
    \/ NoPrompt
    \/ SubmitPrompt
    \/ UploadText
    \/ UploadImage
    \/ SkipRun
    \/ RunAgent
    \/ StreamEvent
    \/ StreamEnd
    \/ StreamError
    \/ Sidebar
    \/ DeleteStore

Spec == Init /\ [][Next]_vars

\* ------------------------------------- the specification of one turn alone
\* The state in which run_agent starts to read the stream, in a session
\* whose fallback store exists: the first run of the script found it, built
\* the agent around it, and the prompt carried a text and no file.
InitTurn ==
    /\ store = {DEFAULT_VECTOR_STORE_ID}
    /\ issued = 0
    /\ remembered = DEFAULT_VECTOR_STORE_ID
    /\ agent = DEFAULT_VECTOR_STORE_ID
    /\ log = <<>>
    /\ pc = "streaming"
    /\ files = <<>>
    /\ text = FALSE
    /\ attached = <<>>
    /\ turnState = "Streaming"
    /\ turn_vs_id = DEFAULT_VECTOR_STORE_ID
    /\ acc = NewAccumulator
    /\ received = <<>>
    /\ call = [site |-> "run_agent", vs_id |-> DEFAULT_VECTOR_STORE_ID,
               probed |-> <<[id |-> DEFAULT_VECTOR_STORE_ID,
                             outcome |-> "exists", live |-> TRUE]>>,
               created |-> FALSE, ret |-> DEFAULT_VECTOR_STORE_ID,
               retLive |-> TRUE, unreachable |-> FALSE]
    /\ fallbackHit = TRUE
    /\ promotedFrom = None
    /\ painted = paint_history(<<>>)
    /\ sidebar = NoSidebar
    /\ after_reset = [fresh |-> TRUE, items |-> <<>>]

\* the stream of the turn delivers any event of Events
TurnEvent ==
    /\ Len(received) < MaxEvents
    /\ \E ev \in Events : OnEvent(ev)

NextTurn ==
    \/ TurnEvent
    \/ StreamEnd
    \/ StreamError

SpecTurn == InitTurn /\ [][NextTurn]_vars

\* --------------------------------- the specification of the log's replay
\* The session of a process that finds in chat-gpt-clone-memory.db what
\* earlier processes left there: any items of Items, MaxItems at most.  The
\* fallback store exists at the start, in a backend that has issued all the
\* ids it will: a probe finds the store, fails or, once the store is
\* deleted, does not find it, and every create fails.  The steps are those
\* of the application.
InitHistory ==
    \E prior \in SeqsUpTo(Items, MaxItems) :
        /\ SessionStartOn(MaxCreate, prior)
        /\ store = {DEFAULT_VECTOR_STORE_ID}

SpecHistory == InitHistory /\ [][Next]_vars

\* ------------------------------- the specification of a session's turns
\* The same session, with prompts that carry a text and no file: turn
\* after turn, each with up to MaxSessionEvents events of SessionEvents.
InitSession ==
    /\ SessionStart(MaxCreate)
    /\ store = {DEFAULT_VECTOR_STORE_ID}

\* st.chat_input returned a prompt with a text and no file, in a session
\* whose log holds the items of one turn at most
SubmitText ==
    /\ pc = "prompt"
    /\ Len(log) <= Len(TurnItems(<<>>))
    /\ files' = <<>>
    /\ text' = TRUE
    /\ pc' = "files"
    /\ UNCHANGED <<backendVars, agent, log, attached, turnVars, pageVars>>

\* the stream of a turn of the session delivers an event
SessionEvent ==
    /\ Len(received) < MaxSessionEvents
    /\ \E ev \in SessionEvents : OnEvent(ev)

\* the async for loop of run_agent goes on
StreamStep ==
    \/ SessionEvent
    \/ StreamEnd
    \/ StreamError

NextSession ==
    \/ ScriptStart
    \/ NoPrompt
    \/ SubmitText
    \/ RunAgent
    \/ StreamStep
    \/ Sidebar
    \/ DeleteStore

SpecSession == InitSession /\ [][NextSession]_vars

\* asyncio.run drives run_agent until it returns or raises: as long as the
\* loop can go on it does, and a finite source ends or fails.
SpecSessionLive == SpecSession /\ WF_vars(StreamStep)

\* ----------------------------------------------------- what the claims use
IsRaw(ev, tag) == ev.type = "raw_response_event" /\ ev.tag = tag

\* the deltas of the events of evs that carry tag, joined in arrival order
RECURSIVE JoinedDeltas(_, _)
JoinedDeltas(evs, tag) ==
    IF evs = <<>> THEN <<>>
    ELSE (IF IsRaw(Head(evs), tag) THEN Head(evs).delta ELSE <<>>)
         \o JoinedDeltas(Tail(evs), tag)

\* s with a backslash put before each dollar sign, stated position by
\* position: character i of s lands at i plus the dollar signs before it
DollarsBefore(s, i) == Cardinality({k \in 1..(i - 1) : s[k] = "$"})

DollarEscaped(s) ==
    [j \in 1..(Len(s) + DollarsBefore(s, Len(s) + 1)) |->
        LET i == CHOOSE i \in 1..Len(s) :
                    /\ i + DollarsBefore(s, i) <= j
                    /\ j <= i + DollarsBefore(s, i)
                            + (IF s[i] = "$" THEN 1 ELSE 0)
        IN  IF s[i] = "$" /\ j = i + DollarsBefore(s, i) THEN "\\" ELSE s[i]]

\* the render operations of kind op that event k of the turn emitted
OpsAt(k, op) ==
    {i \in DOMAIN acc.ops : acc.ops[i].at = k /\ acc.ops[i].op = op}

\* the bytes of the payloads of ImagePayloads
PayloadBytes(p) ==
    IF p = <<"Q", "Q", "=", "=">> THEN <<65>>
    ELSE IF p = <<"Q", "k", "M", "=">> THEN <<66, 67>>
    ELSE <<>>

\* the position of the last event of evs that satisfies Is, 0 if none
LastRaw(evs, tag) ==
    LET at == {k \in DOMAIN evs : IsRaw(evs[k], tag)}
    IN  IF at = {} THEN 0 ELSE CHOOSE k \in at : \A m \in at : m <= k

LastStatusEvent(evs) ==
    LET at == {k \in DOMAIN evs :
                  /\ evs[k].type = "raw_response_event"
                  /\ evs[k].tag \in DOMAIN status_messages}
    IN  IF at = {} THEN 0 ELSE CHOOSE k \in at : \A m \in at : m <= k

\* C7: every text-delta event emits exactly one SetText, whose value is the
\* concatenation in arrival order of all text deltas of the turn up to and
\* including that event, with every dollar sign escaped by a backslash.
C7_TextIsCumulativeAndEscaped ==
    \A k \in DOMAIN received :
        IsRaw(received[k], "response.output_text.delta") =>
            /\ Cardinality(OpsAt(k, "SetText")) = 1
            /\ \A i \in OpsAt(k, "SetText") :
                  acc.ops[i].value =
                      DollarEscaped(JoinedDeltas(SubSeq(received, 1, k),
                                                 "response.output_text.delta"))

\* C7 witness: "Hel" then "$5" arrived, and the second SetText shows Hel\$5
C7_Witness ==
    /\ Len(received) >= 2
    /\ IsRaw(received[Len(received)], "response.output_text.delta")
    /\ \E i \in DOMAIN acc.ops :
          /\ acc.ops[i].op = "SetText"
          /\ acc.ops[i].value = <<"H", "e", "l", "\\", "$", "5">>

\* C8: every code-delta event emits exactly one SetCode, whose value is the
\* concatenation in arrival order of all code deltas of the turn up to and
\* including that event, unescaped.
C8_CodeIsCumulativeUnescaped ==
    \A k \in DOMAIN received :
        IsRaw(received[k], "response.code_interpreter_call_code.delta") =>
            /\ Cardinality(OpsAt(k, "SetCode")) = 1
            /\ \A i \in OpsAt(k, "SetCode") :
                  acc.ops[i].value =
                      JoinedDeltas(SubSeq(received, 1, k),
                                   "response.code_interpreter_call_code.delta")

\* C8 witness: the code deltas "$" and "x=" arrived, and SetCode shows $x=
C8_Witness ==
    /\ Len(received) >= 2
    /\ \E i \in DOMAIN acc.ops :
          /\ acc.ops[i].op = "SetCode"
          /\ acc.ops[i].value = <<"$", "x", "=">>

\* C9: every partial-image event emits exactly one SetImage with the decoded
\* bytes of that event alone, so the image shown is that of the most recent
\* partial-image event, and nothing is shown before the first.
C9_ImageIsReplaced ==
    /\ \A k \in DOMAIN received :
          IsRaw(received[k], "response.image_generation_call.partial_image") =>
              /\ Cardinality(OpsAt(k, "SetImage")) = 1
              /\ \A i \in OpsAt(k, "SetImage") :
                    acc.ops[i].value =
                        PayloadBytes(received[k].partial_image_b64)
    /\ LET last == LastRaw(received,
                           "response.image_generation_call.partial_image")
       IN  ShownImage(acc.ops) =
               IF last = 0 THEN <<>>
               ELSE PayloadBytes(received[last].partial_image_b64)

\* C9 witness: two partial images arrived one after the other, the first of
\* two bytes and the second of one, and the second alone is shown
C9_Witness ==
    /\ Len(received) >= 2
    /\ IsRaw(received[1], "response.image_generation_call.partial_image")
    /\ IsRaw(received[2], "response.image_generation_call.partial_image")
    /\ received[1].partial_image_b64 = <<"Q", "k", "M", "=">>
    /\ received[2].partial_image_b64 = <<"Q", "Q", "=", "=">>
    /\ Len(received) = 2
    /\ ShownImage(acc.ops) = <<65>>

\* C10: the status is the table entry of the most recent raw event with a
\* recognized tag, the initial status when there was none; events with
\* other tags leave it as it is.
C10_StatusFollowsLastRecognizedTag ==
    LET last == LastStatusEvent(received)
    IN  acc.status =
            IF last = 0 THEN InitialStatus
            ELSE [label |-> status_messages[received[last].tag][1],
                  state |-> status_messages[received[last].tag][2]]

\* C10 witness: a recognized tag was followed by an unrecognized one, and
\* the status is still that of the recognized tag
C10_Witness ==
    /\ Len(received) >= 2
    /\ IsRaw(received[Len(received) - 1], "response.web_search_call.completed")
    /\ IsRaw(received[Len(received)], "response.created")
    /\ acc.status = [label |-> "U+2705 Web search completed.",
                     state |-> "complete"]

\* the ids the backend has issued so far
IssuedIds == {IssuedId(n) : n \in 1..issued}

\* the candidates of a call that found vs in the session state, in order
CandidatesOf(vs) ==
    IF vs = None THEN <<DEFAULT_VECTOR_STORE_ID>>
    ELSE <<vs, DEFAULT_VECTOR_STORE_ID>>

\* C1: when a turn starts to stream, the store id of the agent's file-search
\* tool is the id that ensure_vector_store() returned to run_agent for that
\* turn.
C1_AgentBoundToEnsuredStore ==
    pc = "streaming" => agent = turn_vs_id

\* C2: with no remembered id at the start and no successful probe of the
\* fallback, the calls of a session create exactly one resource: none is
\* created after the first, and one exists once a call has returned.  Read
\* with created resources that are still in the backend.
C2_ExactlyOneCreated ==
    (~fallbackHit /\ IssuedIds \subseteq store) =>
        /\ issued <= 1
        /\ (remembered # None => issued = 1)

\* C3: a call that finds the remembered id dead and the fallback alive
\* returns the fallback and remembers it; every later call probes the
\* fallback first and never probes the dead id again.
C3_FallbackPromoted ==
    promotedFrom # None =>
        IF call.vs_id = promotedFrom
        THEN call.ret = DEFAULT_VECTOR_STORE_ID
             /\ remembered = DEFAULT_VECTOR_STORE_ID
        ELSE /\ call.probed # <<>>
             /\ call.probed[1].id = DEFAULT_VECTOR_STORE_ID
             /\ \A i \in DOMAIN call.probed : call.probed[i].id # promotedFrom

\* C4: a call in which the probe of a candidate that exists met a backend
\* error creates no resource.
C4_ProbeErrorDoesNotCreate ==
    (\E i \in DOMAIN call.probed :
        call.probed[i].outcome = "error" /\ call.probed[i].live)
    => ~call.created

\* C5: a call whose every probe and whose create fail raises, returns no id
\* and leaves the remembered id as it found it.
C5_UnreachablePropagates ==
    call.unreachable =>
        /\ call.ret = Raised
        /\ ~call.created
        /\ remembered = call.vs_id

\* C5 witness: a call with a remembered id met an error at both probes and
\* at create
C5_Witness ==
    /\ call.unreachable
    /\ call.vs_id # None
    /\ Len(call.probed) = 2
    /\ \A i \in DOMAIN call.probed : call.probed[i].outcome = "error"

\* the first-resolved part of C6: the probes of the call follow the
\* candidates in order, a probe succeeded only on an id that existed when
\* the backend answered it, the returned id is that of the only and last
\* successful probe, or an id the backend has just issued when every
\* candidate was probed without success
FirstResolved ==
    LET cands == CandidatesOf(call.vs_id)
        hits == {i \in DOMAIN call.probed :
                    call.probed[i].outcome = "exists"}
    IN  /\ Len(call.probed) <= Len(cands)
        /\ \A i \in DOMAIN call.probed :
              /\ call.probed[i].id = cands[i]
              /\ call.probed[i].outcome = "exists" => call.probed[i].live
        /\ IF hits # {}
           THEN /\ hits = {Len(call.probed)}
                /\ call.ret = call.probed[Len(call.probed)].id
                /\ ~call.created
           ELSE /\ Len(call.probed) = Len(cands)
                /\ call.created
                /\ call.ret \in IssuedIds
                /\ \A i \in DOMAIN call.probed :
                      call.probed[i].id # call.ret

\* C6 as stated: an id returned by ensure_vector_store() is the first
\* candidate of [remembered, fallback] whose probe succeeded, or a freshly
\* created id when every candidate was probed without success; it exists in
\* the backend when the call returns, and it is the remembered id.
C6_ExistsAtReturn ==
    call.ret \notin {None, Raised} =>
        /\ call.retLive
        /\ remembered = call.ret
        /\ FirstResolved

\* C6, amended: an id returned by ensure_vector_store() is the first
\* candidate of [remembered, fallback] whose probe succeeded, or a freshly
\* created id when every candidate was probed without success; it existed
\* in the backend when the backend answered its probe or its create, and it
\* is the remembered id.
C6_ReturnsFirstResolved ==
    call.ret \notin {None, Raised} =>
        /\ remembered = call.ret
        /\ FirstResolved

\* C6 witness: the remembered id was probed without success and the
\* fallback, probed second, was returned
C6_Witness ==
    /\ call.ret = DEFAULT_VECTOR_STORE_ID
    /\ call.vs_id \notin {None, DEFAULT_VECTOR_STORE_ID}
    /\ Len(call.probed) = 2
    /\ remembered = DEFAULT_VECTOR_STORE_ID

\* a call returned the fallback id, which its probe had found, after the
\* fallback was deleted out of band: the session remembers an id that is
\* not in the backend at the return
C6_DeletedBeforeReturn ==
    /\ call.ret = DEFAULT_VECTOR_STORE_ID
    /\ call.probed[Len(call.probed)].live
    /\ ~call.retLive
    /\ remembered = DEFAULT_VECTOR_STORE_ID
    /\ DEFAULT_VECTOR_STORE_ID \notin store

\* the tags the loop has a rule of its own for
BufferTags ==
    {"response.output_text.delta",
     "response.code_interpreter_call_code.delta",
     "response.image_generation_call.partial_image"}

\* C11: an event changes only the buffer its rule names.  A text delta
\* leaves the code and the image as they were, a code delta the text and the
\* image, a partial image the text and the code; an event that is not a raw
\* response event, or whose tag is neither one of these three nor a tag of
\* the status table, leaves text, code, image and status as they were and
\* emits no render operation.
C11_EventChangesOnlyItsBuffer ==
    [][Len(received') = Len(received) + 1 =>
        LET ev == received'[Len(received')]
            sameText == acc'.response = acc.response
            sameCode == acc'.code_response = acc.code_response
            sameImage == ShownImage(acc'.ops) = ShownImage(acc.ops)
        IN  /\ IsRaw(ev, "response.output_text.delta") =>
                  sameCode /\ sameImage
            /\ IsRaw(ev, "response.code_interpreter_call_code.delta") =>
                  sameText /\ sameImage
            /\ IsRaw(ev, "response.image_generation_call.partial_image") =>
                  sameText /\ sameCode
            /\ (\/ ev.type # "raw_response_event"
                \/ ev.tag \notin BufferTags \cup DOMAIN status_messages) =>
                  /\ sameText /\ sameCode /\ sameImage
                  /\ acc'.status = acc.status
                  /\ acc'.ops = acc.ops
    ]_vars

\* C11 witness: a code delta and a partial image arrived, then a text delta,
\* and the code and the image are those of the first two events
C11_Witness ==
    /\ Len(received) = 3
    /\ IsRaw(received[1], "response.code_interpreter_call_code.delta")
    /\ IsRaw(received[2], "response.image_generation_call.partial_image")
    /\ IsRaw(received[3], "response.output_text.delta")
    /\ acc.code_response = received[1].delta
    /\ ShownImage(acc.ops) = PayloadBytes(received[2].partial_image_b64)
    /\ acc.response = received[3].delta

\* q is p followed by zero or more elements
IsPrefix(p, q) == Len(p) <= Len(q) /\ SubSeq(q, 1, Len(p)) = p

\* C12: every turn of a session starts with empty text and code buffers and
\* no image, whatever the turns before it rendered: while a turn streams,
\* its buffers hold the deltas of its own events and nothing else, and every
\* SetText and SetCode shows the deltas of this turn up to its event.
C12_TurnStartsEmpty ==
    turnState = "Streaming" =>
        /\ acc.response = JoinedDeltas(received, "response.output_text.delta")
        /\ acc.code_response =
              JoinedDeltas(received,
                           "response.code_interpreter_call_code.delta")
        /\ received = <<>> => acc.ops = <<>> /\ ShownImage(acc.ops) = <<>>
        /\ \A i \in DOMAIN acc.ops :
              /\ acc.ops[i].op = "SetText" =>
                    acc.ops[i].value =
                        DollarEscaped(
                            JoinedDeltas(SubSeq(received, 1, acc.ops[i].at),
                                         "response.output_text.delta"))
              /\ acc.ops[i].op = "SetCode" =>
                    acc.ops[i].value =
                        JoinedDeltas(SubSeq(received, 1, acc.ops[i].at),
                                     "response.code_interpreter_call_code.delta")

\* C12 witness: a turn has ended before, with a text that the page
\* replays, and the first event of this turn, a text delta, was written
\* alone
C12_Witness ==
    /\ painted.messages = TurnItems(<<"$", "5", "$", "5">>)
    /\ turnState = "Streaming"
    /\ Len(received) = 1
    /\ IsRaw(received[1], "response.output_text.delta")
    /\ acc.ops = <<[op |-> "SetText", at |-> 1,
                    value |-> <<"\\", "$", "5">>]>>

\* C13: the render operations of a turn are emitted in the order of its
\* events, and the turns of a session do not interleave.  While a turn
\* streams, a step either ends it or appends the operations of the next
\* event to those emitted so far; operations are emitted by a streaming
\* turn only; and a turn starts, with nothing emitted, only when no turn
\* streams, the turn before it having ended Completed or Failed.
C13_OpsInArrivalOrderNoInterleaving ==
    [][/\ turnState = "Streaming" =>
            /\ turnState' \in {"Streaming", "Completed", "Failed"}
            /\ IsPrefix(received, received')
            /\ Len(received') <= Len(received) + 1
            /\ IsPrefix(acc.ops, acc'.ops)
            /\ \A i \in DOMAIN acc'.ops :
                  /\ i > Len(acc.ops) =>
                        /\ Len(received') = Len(received) + 1
                        /\ acc'.ops[i].at = Len(received')
                  /\ \A j \in DOMAIN acc'.ops :
                        i < j => acc'.ops[i].at <= acc'.ops[j].at
       /\ acc'.ops # acc.ops => turnState = "Streaming" \/ acc'.ops = <<>>
       /\ (turnState' = "Streaming" /\ turnState # "Streaming") =>
            /\ acc'.ops = <<>>
            /\ received' = <<>>
    ]_vars

\* C13 witness: in a turn that follows another, two events have each
\* emitted an operation, the first before the second
C13_Witness ==
    /\ painted.messages # <<>>
    /\ turnState = "Streaming"
    /\ Len(received) = 2
    /\ Len(acc.ops) = 2
    /\ acc.ops[1].at = 1
    /\ acc.ops[2].at = 2
    /\ acc.ops[1].op # acc.ops[2].op

\* C14: when the event source raises after k events, the exception leaves
\* run_agent and the script run, the turn is Failed, what the k events
\* rendered (text, code, image, status) stays as emitted, and nothing is
\* emitted for the turn afterwards.
C14_FailureKeepsWhatWasRendered ==
    [][/\ (pc = "streaming" /\ pc' = "idle") =>
            /\ turnState' = "Failed"
            /\ acc' = acc
            /\ received' = received
       /\ (pc = "streaming" /\ turnState' = "Failed") => pc' = "idle"
       /\ turnState = "Failed" => acc' = acc /\ turnState' = "Failed"
    ]_vars

\* C14 witness: the source raised after a text delta and a status event,
\* and the text and the status are still those the two events rendered
C14_Witness ==
    /\ turnState = "Failed"
    /\ pc = "idle"
    /\ Len(received) = 2
    /\ IsRaw(received[1], "response.output_text.delta")
    /\ IsRaw(received[2], "response.web_search_call.searching")
    /\ acc.response = received[1].delta
    /\ acc.status = [label |-> "U+1F50D Web search in progress...",
                     state |-> "running"]
    /\ Len(acc.ops) = 2

\* C15: whatever the log held, Reset memory leaves it empty and the
\* get_items that follows clear_session returns the empty sequence; from
\* then on the items the session has added since are the only items
\* get_items returns: in the log, in what paint_history reads at the start
\* of a script run, and in what the sidebar shows at its end.
C15_ResetEmptiesTheLog ==
    /\ (sidebar.ran /\ sidebar.reset) =>
          /\ sidebar.shown = <<>>
          /\ get_items(log) = <<>>
    /\ after_reset.fresh =>
          /\ get_items(log) = after_reset.items
          /\ sidebar.ran => sidebar.shown = after_reset.items
          /\ pc = "prompt" =>
                /\ ~painted.raised
                /\ painted.messages = after_reset.items

\* C15 witness: the script run painted the two items an earlier session had
\* left in the file, Reset memory was pressed, and the sidebar showed no
\* item
C15_Witness ==
    /\ sidebar.ran
    /\ sidebar.reset
    /\ Len(painted.messages) = 2
    /\ after_reset = [fresh |-> TRUE, items |-> <<>>]
    /\ sidebar.shown = <<>>
    /\ log = <<>>

\* after a reset the session has added an image and the items of a turn,
\* and the sidebar of a later run shows these three items and no other
C15_AddedAfterReset ==
    /\ after_reset.fresh
    /\ after_reset.items = <<ImageItem>> \o TurnItems(<<>>)
    /\ sidebar.ran
    /\ ~sidebar.reset
    /\ sidebar.shown = after_reset.items

\* the items that bear a text: the user's text message, the assistant's
\* message
IsUserText(m) ==
    /\ "role" \in DOMAIN m
    /\ m.role = "user"
    /\ "str" \in DOMAIN m.content

IsAssistantMessage(m) ==
    /\ "role" \in DOMAIN m
    /\ m.role = "assistant"
    /\ "type" \in DOMAIN m
    /\ m.type = "message"
    /\ "list" \in DOMAIN m.content
    /\ m.content.list # <<>>
    /\ "text" \in DOMAIN m.content.list[1]

TextBearing(m) == IsUserText(m) \/ IsAssistantMessage(m)

\* the text the bubble of a text-bearing item shows
ExpectedText(m) ==
    IF IsUserText(m) THEN m.content.str
    ELSE DollarEscaped(m.content.list[1].text)

\* the bubbles of the page that show a text of the user or the assistant
TextBubbles ==
    {k \in DOMAIN painted.bubbles :
        /\ painted.bubbles[k].role \in {"user", "assistant"}
        /\ \E e \in DOMAIN painted.bubbles[k].body :
              "write" \in DOMAIN painted.bubbles[k].body[e]}

\* C16: for every sequence of conversation items in the log (user messages,
\* assistant messages, tool call records), paint_history draws exactly one
\* text bubble for each text-bearing item, with the item's role and text,
\* none for any other item, and in the order of the items.
C16_OneTextBubblePerTextItem ==
    (\A i \in DOMAIN painted.messages :
        painted.messages[i] \in ConversationItems) =>
        /\ \A i \in DOMAIN painted.messages :
              TextBearing(painted.messages[i]) =>
                  /\ Cardinality({k \in TextBubbles :
                                     painted.bubbles[k].item = i}) = 1
                  /\ \A k \in TextBubbles :
                        painted.bubbles[k].item = i =>
                            /\ painted.bubbles[k].role = painted.messages[i].role
                            /\ Len(painted.bubbles[k].body) = 1
                            /\ painted.bubbles[k].body[1].write =
                                  ExpectedText(painted.messages[i])
        /\ \A k \in TextBubbles :
              TextBearing(painted.messages[painted.bubbles[k].item])
        /\ \A k1, k2 \in TextBubbles :
              k1 < k2 => painted.bubbles[k1].item < painted.bubbles[k2].item

\* C16 witness: the log held the user's text and then the assistant's
\* message, and the page shows the two texts in this order
C16_Witness ==
    /\ painted.messages = <<UserTextItem, AssistantItem>>
    /\ Len(painted.bubbles) = 2
    /\ painted.bubbles[1].body = <<[write |-> <<"$", "5">>]>>
    /\ painted.bubbles[2].body = <<[write |-> <<"a", "\\", "$">>]>>

\* C17: during replay every item of a recognized kind is drawn by exactly
\* one rule, and an item of any other kind, an item with a role other than
\* user and no recognized type included, draws nothing and does not abort
\* the replay.
C17_OneRulePerKindUnknownSkipped ==
    /\ ~painted.raised
    /\ \A i \in DOMAIN painted.messages :
          Cardinality({k \in DOMAIN painted.bubbles :
                          painted.bubbles[k].item = i})
              = IF painted.messages[i] \in ConversationItems THEN 1 ELSE 0

\* C18: the uploads of a submission are handled before the stream of its
\* turn is started.  Each step that handles a file of the prompt appends
\* the image item to the log, or attaches the document to the id that the
\* call of ensure_vector_store made for this upload returned (or ends the
\* run on a failure); when the stream starts no file is left, and while it
\* runs nothing is added to the log or attached.
C18_UploadsBeforeStream ==
    [][/\ (pc = "files" /\ files' # files) =>
            IF Head(files) = "image/png"
            THEN /\ log' = Append(log, ImageItem)
                 /\ files' = Tail(files)
                 /\ pc' = "files"
            ELSE \/ /\ pc' = "idle"
                    /\ attached' = <<>>
                 \/ /\ files' = Tail(files)
                    /\ pc' = "files"
                    /\ call'.site = "upload"
                    /\ call'.ret \notin {None, Raised}
                    /\ attached' = Append(attached, call'.ret)
       /\ pc' = "streaming" =>
            /\ files' = <<>>
            /\ log' = log
            /\ attached' = attached
    ]_vars

\* C18 witness: the prompt carried a document and a text, the document was
\* attached to the store of its own ensure_vector_store call, and the stream
\* of the turn has just been started
C18_Witness ==
    /\ pc = "streaming"
    /\ received = <<>>
    /\ Len(attached) = 1
    /\ call.site = "run_agent"

\* the recognized tags that denote an ongoing phase, by their suffix
\* (in_progress, searching, generating, interpreting), and those that denote
\* a finished phase (completed, done, failed)
OngoingTags ==
    {"response.web_search_call.in_progress",
     "response.web_search_call.searching",
     "response.file_search_call.in_progress",
     "response.file_search_call.searching",
     "response.image_generation_call.generating",
     "response.image_generation_call.in_progress",
     "response.code_interpreter_call.in_progress",
     "response.code_interpreter_call.interpreting",
     "response.mcp_call.in_progress",
     "response.mcp_list_tools.in_progress"}

FinishedTags ==
    {"response.web_search_call.completed",
     "response.file_search_call.completed",
     "response.code_interpreter_call_code.done",
     "response.code_interpreter_call.completed",
     "response.mcp_call.completed",
     "response.mcp_call.failed",
     "response.mcp_list_tools.completed",
     "response.mcp_list_tools.failed",
     "response.completed"}

\* C19: every recognized tag of an ongoing phase puts the status in state
\* running and every recognized tag of a finished phase in state complete,
\* for all tool families, the code interpreter included: after an event
\* with such a tag, the status and the SetStatus it emitted have that state.
C19_OngoingRunningFinishedComplete ==
    /\ OngoingTags \cup FinishedTags = DOMAIN status_messages
    /\ \A k \in DOMAIN received :
          (/\ received[k].type = "raw_response_event"
           /\ received[k].tag \in OngoingTags \cup FinishedTags) =>
              LET state == IF received[k].tag \in OngoingTags
                           THEN "running" ELSE "complete"
              IN  /\ \A i \in OpsAt(k, "SetStatus") :
                        acc.ops[i].value[2] = state
                  /\ k = LastStatusEvent(received) => acc.status.state = state

\* C20: a turn started by run_agent on a finite event source leaves
\* Streaming.  It is Completed when run_agent returns (the source is
\* exhausted) and Failed when the exception of the source leaves run_agent,
\* and a turn that has ended does not stream again.
C20_TurnLeavesStreaming ==
    /\ (turnState = "Streaming") ~> (turnState \in {"Completed", "Failed"})
    /\ [][/\ (pc = "streaming" /\ pc' = "sidebar") => turnState' = "Completed"
          /\ (pc = "streaming" /\ pc' = "idle") => turnState' = "Failed"
          /\ turnState \in {"Completed", "Failed"} => turnState' # "Streaming"
       ]_vars

\* C20 witness: the source delivered all its events and was exhausted, and
\* the turn is Completed
C20_Witness ==
    /\ turnState = "Completed"
    /\ pc = "sidebar"
    /\ Len(received) = MaxSessionEvents

====
